---- MODULE Spec2Model ----
(***************************************************************************)
(* Model of the nvml-wrapper binding: the NVML session (init, shutdown,    *)
(* Drop), the Device handles obtained from it, and event registration.     *)
(* The vendor library is the environment: it keeps a reference count of    *)
(* initializations and answers every call with a status code.              *)
(***************************************************************************)
EXTENDS Integers, Sequences, FiniteSets, TLC

\* ------------------------------------------------------------------ bounds
MaxSessions == 3
MaxFaults == 1
NumDevices == 1
MaxSets == 3

Sessions == 1..MaxSessions
Sets == 1..MaxSets

\* --------------------------------------------------- native status codes
NVML_SUCCESS == "NVML_SUCCESS"
NVML_ERROR_UNINITIALIZED == "NVML_ERROR_UNINITIALIZED"
NVML_ERROR_INVALID_ARGUMENT == "NVML_ERROR_INVALID_ARGUMENT"
NVML_ERROR_NOT_SUPPORTED == "NVML_ERROR_NOT_SUPPORTED"
NVML_ERROR_NO_PERMISSION == "NVML_ERROR_NO_PERMISSION"
NVML_ERROR_DRIVER_NOT_LOADED == "NVML_ERROR_DRIVER_NOT_LOADED"
NVML_ERROR_INSUFFICIENT_SIZE == "NVML_ERROR_INSUFFICIENT_SIZE"
NVML_ERROR_NOT_FOUND == "NVML_ERROR_NOT_FOUND"
NVML_ERROR_UNKNOWN == "NVML_ERROR_UNKNOWN"

\* The status-code translator: success, or the error kind of the code.
nvml_try(status) ==
    CASE status = NVML_SUCCESS -> "Ok"
      [] status = NVML_ERROR_UNINITIALIZED -> "Uninitialized"
      [] status = NVML_ERROR_INVALID_ARGUMENT -> "InvalidArg"
      [] status = NVML_ERROR_NOT_SUPPORTED -> "NotSupported"
      [] status = NVML_ERROR_NO_PERMISSION -> "NoPermission"
      [] status = NVML_ERROR_DRIVER_NOT_LOADED -> "DriverNotLoaded"
      [] status = NVML_ERROR_INSUFFICIENT_SIZE -> "InsufficientSize"
      [] status = NVML_ERROR_NOT_FOUND -> "NotFound"
      [] OTHER -> "Unknown"

\* Result<V>: Ok carrying a value, or Err carrying an error kind and no value.
NoValue == "NoValue"
Ok(v) == [kind |-> "Ok", value |-> v, cause |-> "none"]
Err(e) == [kind |-> e, value |-> NoValue, cause |-> "none"]
NotCalled == [kind |-> "none", value |-> NoValue, cause |-> "none"]

\* An operation whose behaviour is undefined may end in any way; Undefined
\* stands for the ways that return nothing usable (a crash, an invalid value).
Undefined == [kind |-> "undefined", value |-> NoValue, cause |-> "none"]

\* ------------------------------------------------ enum_wrappers
\* Each wrapper enum: the native enum type it wraps (c_enum), the native
\* count constant named by has_count ("none" when it names none), and its
\* variants in declaration order, each with the native constant of its
\* c_variant.
Api ==
    [name |-> "Api", c_enum |-> "nvmlRestrictedAPI_t",
     has_count |-> "NVML_RESTRICTED_API_COUNT",
     variants |->
       << <<"ApplicationClocks", "NVML_RESTRICTED_API_SET_APPLICATION_CLOCKS">>,
          <<"AutoBoostedClocks", "NVML_RESTRICTED_API_SET_AUTO_BOOSTED_CLOCKS">> >>]

Clock ==
    [name |-> "Clock", c_enum |-> "nvmlClockType_t",
     has_count |-> "NVML_CLOCK_COUNT",
     variants |->
       << <<"Graphics", "NVML_CLOCK_GRAPHICS">>,
          <<"SM", "NVML_CLOCK_SM">>,
          <<"Memory", "NVML_CLOCK_MEM">>,
          <<"Video", "NVML_CLOCK_VIDEO">> >>]

ClockId ==
    [name |-> "ClockId", c_enum |-> "nvmlClockId_t",
     has_count |-> "NVML_CLOCK_ID_COUNT",
     variants |->
       << <<"Current", "NVML_CLOCK_ID_CURRENT">>,
          <<"TargetAppClock", "NVML_CLOCK_ID_APP_CLOCK_TARGET">>,
          <<"DefaultAppClock", "NVML_CLOCK_ID_APP_CLOCK_DEFAULT">>,
          <<"CustomerMaxBoost", "NVML_CLOCK_ID_CUSTOMER_BOOST_MAX">> >>]

Brand ==
    [name |-> "Brand", c_enum |-> "nvmlBrandType_t",
     has_count |-> "NVML_BRAND_COUNT",
     variants |->
       << <<"Unknown", "NVML_BRAND_UNKNOWN">>,
          <<"Quadro", "NVML_BRAND_QUADRO">>,
          <<"Tesla", "NVML_BRAND_TESLA">>,
          <<"NVS", "NVML_BRAND_NVS">>,
          <<"GRID", "NVML_BRAND_GRID">>,
          <<"GeForce", "NVML_BRAND_GEFORCE">> >>]

BridgeChip ==
    [name |-> "BridgeChip", c_enum |-> "nvmlBridgeChipType_t",
     has_count |-> "none",
     variants |->
       << <<"PLX", "NVML_BRIDGE_CHIP_PLX">>,
          <<"BRO4", "NVML_BRIDGE_CHIP_BRO4">> >>]

MemoryError ==
    [name |-> "MemoryError", c_enum |-> "nvmlMemoryErrorType_t",
     has_count |-> "NVML_MEMORY_ERROR_TYPE_COUNT",
     variants |->
       << <<"Corrected", "NVML_MEMORY_ERROR_TYPE_CORRECTED">>,
          <<"Uncorrected", "NVML_MEMORY_ERROR_TYPE_UNCORRECTED">> >>]

EccCounter ==
    [name |-> "EccCounter", c_enum |-> "nvmlEccCounterType_t",
     has_count |-> "NVML_ECC_COUNTER_TYPE_COUNT",
     variants |->
       << <<"Volatile", "NVML_VOLATILE_ECC">>,
          <<"Aggregate", "NVML_AGGREGATE_ECC">> >>]

MemoryLocation_shared_as_texture ==
    [name |-> "MemoryLocation", c_enum |-> "nvmlMemoryLocation_t",
     has_count |-> "NVML_MEMORY_LOCATION_COUNT",
     variants |->
       << <<"L1Cache", "NVML_MEMORY_LOCATION_L1_CACHE">>,
          <<"L2Cache", "NVML_MEMORY_LOCATION_L2_CACHE">>,
          <<"Device", "NVML_MEMORY_LOCATION_DEVICE_MEMORY">>,
          <<"RegisterFile", "NVML_MEMORY_LOCATION_REGISTER_FILE">>,
          <<"Texture", "NVML_MEMORY_LOCATION_TEXTURE_MEMORY">>,
          <<"Shared", "NVML_MEMORY_LOCATION_TEXTURE_MEMORY">> >>]

MemoryLocation ==
    [name |-> "MemoryLocation", c_enum |-> "nvmlMemoryLocation_t",
     has_count |-> "NVML_MEMORY_LOCATION_COUNT",
     variants |->
       << <<"L1Cache", "NVML_MEMORY_LOCATION_L1_CACHE">>,
          <<"L2Cache", "NVML_MEMORY_LOCATION_L2_CACHE">>,
          <<"Device", "NVML_MEMORY_LOCATION_DEVICE_MEMORY">>,
          <<"RegisterFile", "NVML_MEMORY_LOCATION_REGISTER_FILE">>,
          <<"Texture", "NVML_MEMORY_LOCATION_TEXTURE_MEMORY">>,
          <<"Shared", "NVML_MEMORY_LOCATION_TEXTURE_SHM">> >>]

DriverModel ==
    [name |-> "DriverModel", c_enum |-> "nvmlDriverModel_t",
     has_count |-> "none",
     variants |->
       << <<"WDDM", "NVML_DRIVER_WDDM">>,
          <<"WDM", "NVML_DRIVER_WDM">> >>]

OperationMode ==
    [name |-> "OperationMode", c_enum |-> "nvmlGpuOperationMode_t",
     has_count |-> "none",
     variants |->
       << <<"AllOn", "NVML_GOM_ALL_ON">>,
          <<"Compute", "NVML_GOM_COMPUTE">>,
          <<"LowDP", "NVML_GOM_LOW_DP">> >>]

InfoROM ==
    [name |-> "InfoROM", c_enum |-> "nvmlInforomObject_t",
     has_count |-> "NVML_INFOROM_COUNT",
     variants |->
       << <<"OEM", "NVML_INFOROM_OEM">>,
          <<"ECC", "NVML_INFOROM_ECC">>,
          <<"Power", "NVML_INFOROM_POWER">> >>]

PcieUtilCounter ==
    [name |-> "PcieUtilCounter", c_enum |-> "nvmlPcieUtilCounter_t",
     has_count |-> "NVML_PCIE_UTIL_COUNT",
     variants |->
       << <<"Send", "NVML_PCIE_UTIL_TX_BYTES">>,
          <<"Receive", "NVML_PCIE_UTIL_RX_BYTES">> >>]

PerformanceState ==
    [name |-> "PerformanceState", c_enum |-> "nvmlPstates_t",
     has_count |-> "none",
     variants |->
       << <<"Zero", "NVML_PSTATE_0">>,
          <<"One", "NVML_PSTATE_1">>,
          <<"Two", "NVML_PSTATE_2">>,
          <<"Three", "NVML_PSTATE_3">>,
          <<"Four", "NVML_PSTATE_4">>,
          <<"Five", "NVML_PSTATE_5">>,
          <<"Six", "NVML_PSTATE_6">>,
          <<"Seven", "NVML_PSTATE_7">>,
          <<"Eight", "NVML_PSTATE_8">>,
          <<"Nine", "NVML_PSTATE_9">>,
          <<"Ten", "NVML_PSTATE_10">>,
          <<"Eleven", "NVML_PSTATE_11">>,
          <<"Twelve", "NVML_PSTATE_12">>,
          <<"Thirteen", "NVML_PSTATE_13">>,
          <<"Fourteen", "NVML_PSTATE_14">>,
          <<"Fifteen", "NVML_PSTATE_15">>,
          <<"Unknown", "NVML_PSTATE_UNKNOWN">> >>]

RetirementCause ==
    [name |-> "RetirementCause", c_enum |-> "nvmlPageRetirementCause_t",
     has_count |-> "NVML_PAGE_RETIREMENT_CAUSE_COUNT",
     variants |->
       << <<"MultipleSingleBitEccErrors", "NVML_PAGE_RETIREMENT_CAUSE_MULTIPLE_SINGLE_BIT_ECC_ERRORS">>,
          <<"DoubleBitEccError", "NVML_PAGE_RETIREMENT_CAUSE_DOUBLE_BIT_ECC_ERROR">> >>]

Sampling ==
    [name |-> "Sampling", c_enum |-> "nvmlSamplingType_t",
     has_count |-> "NVML_SAMPLINGTYPE_COUNT",
     variants |->
       << <<"Power", "NVML_TOTAL_POWER_SAMPLES">>,
          <<"GpuUtilization", "NVML_GPU_UTILIZATION_SAMPLES">>,
          <<"MemoryUtilization", "NVML_MEMORY_UTILIZATION_SAMPLES">>,
          <<"EncoderUtilization", "NVML_ENC_UTILIZATION_SAMPLES">>,
          <<"DecoderUtilization", "NVML_DEC_UTILIZATION_SAMPLES">>,
          <<"ProcessorClock", "NVML_PROCESSOR_CLK_SAMPLES">>,
          <<"MemoryClock", "NVML_MEMORY_CLK_SAMPLES">> >>]

TemperatureSensor ==
    [name |-> "TemperatureSensor", c_enum |-> "nvmlTemperatureSensors_t",
     has_count |-> "NVML_TEMPERATURE_COUNT",
     variants |->
       << <<"Gpu", "NVML_TEMPERATURE_GPU">> >>]

TemperatureThreshold ==
    [name |-> "TemperatureThreshold", c_enum |-> "nvmlTemperatureThresholds_t",
     has_count |-> "NVML_TEMPERATURE_THRESHOLD_COUNT",
     variants |->
       << <<"Shutdown", "NVML_TEMPERATURE_THRESHOLD_SHUTDOWN">>,
          <<"Slowdown", "NVML_TEMPERATURE_THRESHOLD_SLOWDOWN">> >>]

TopologyLevel ==
    [name |-> "TopologyLevel", c_enum |-> "nvmlGpuTopologyLevel_t",
     has_count |-> "none",
     variants |->
       << <<"Internal", "NVML_TOPOLOGY_INTERNAL">>,
          <<"Single", "NVML_TOPOLOGY_SINGLE">>,
          <<"Multiple", "NVML_TOPOLOGY_MULTIPLE">>,
          <<"HostBridge", "NVML_TOPOLOGY_HOSTBRIDGE">>,
          <<"Cpu", "NVML_TOPOLOGY_CPU">>,
          <<"System", "NVML_TOPOLOGY_SYSTEM">> >>]

PerformancePolicy ==
    [name |-> "PerformancePolicy", c_enum |-> "nvmlPerfPolicyType_t",
     has_count |-> "NVML_PERF_POLICY_COUNT",
     variants |->
       << <<"Power", "NVML_PERF_POLICY_POWER">>,
          <<"Thermal", "NVML_PERF_POLICY_THERMAL">>,
          <<"SyncBoost", "NVML_PERF_POLICY_SYNC_BOOST">> >>]

FanState ==
    [name |-> "FanState", c_enum |-> "nvmlFanState_t",
     has_count |-> "none",
     variants |->
       << <<"Normal", "NVML_FAN_NORMAL">>,
          <<"Failed", "NVML_FAN_FAILED">> >>]

LedColor ==
    [name |-> "LedColor", c_enum |-> "nvmlLedColor_t",
     has_count |-> "none",
     variants |->
       << <<"Green", "NVML_LED_COLOR_GREEN">>,
          <<"Amber", "NVML_LED_COLOR_AMBER">> >>]

ComputeMode ==
    [name |-> "ComputeMode", c_enum |-> "nvmlComputeMode_t",
     has_count |-> "NVML_COMPUTEMODE_COUNT",
     variants |->
       << <<"Default", "NVML_COMPUTEMODE_DEFAULT">>,
          <<"ExclusiveThread", "NVML_COMPUTEMODE_EXCLUSIVE_THREAD">>,
          <<"Prohibited", "NVML_COMPUTEMODE_PROHIBITED">>,
          <<"ExclusiveProcess", "NVML_COMPUTEMODE_EXCLUSIVE_PROCESS">> >>]

EnumWrappers ==
    {Api, Clock, ClockId, Brand, BridgeChip, MemoryError, EccCounter,
     MemoryLocation, DriverModel, OperationMode, InfoROM, PcieUtilCounter,
     PerformanceState, RetirementCause, Sampling, TemperatureSensor,
     TemperatureThreshold, TopologyLevel, PerformancePolicy, FanState,
     LedColor, ComputeMode}

Enum(name) == CHOOSE E \in EnumWrappers : E.name = name

Variants(E) == {E.variants[i][1] : i \in DOMAIN E.variants}
c_variants(E) == {E.variants[i][2] : i \in DOMAIN E.variants}

\* A value of the native enum type that is none of the constants the wrapper
\* knows: a constant a later revision of the native library added.
Unlisted == "unlisted"

\* What the native library can write into a variable of the native enum type.
NativeValues(E) ==
    c_variants(E)
      \cup (IF E.has_count = "none" THEN {} ELSE {E.has_count})
      \cup {Unlisted}

\* into_c(): the match from the variant to the constant of its c_variant.
into_c(E, v) ==
    E.variants[CHOOSE i \in DOMAIN E.variants : E.variants[i][1] = v][2]

\* The arm of the match from native constants to variants that takes c: the
\* first one whose pattern is c.
Arms(E, c) == {i \in DOMAIN E.variants : E.variants[i][2] = c}
FirstArm(E, c) == CHOOSE i \in Arms(E, c) : \A j \in Arms(E, c) : i <= j

\* A match on a value that is no constant of the native enum type is
\* undefined: it may take any arm, or none and yield no variant at all.
NoVariant == "no variant"
InvalidDiscriminant(E) == Variants(E) \cup {NoVariant}

\* Ok(v) of a conversion that yielded a variant.
Converted(v) == IF v = NoVariant THEN Undefined ELSE Ok(v)

\* From<c_enum>: the wrapper of an enum without has_count converts
\* infallibly; the match has one arm per native constant.
from(E, c) ==
    IF Arms(E, c) # {} THEN {E.variants[FirstArm(E, c)][1]}
    ELSE InvalidDiscriminant(E)

\* try_from(c_enum): the wrapper of an enum with has_count converts
\* fallibly; the arm of the count constant is the UnexpectedVariant error.
try_from(E, c) ==
    IF Arms(E, c) # {} THEN {Ok(E.variants[FirstArm(E, c)][1])}
    ELSE IF c = E.has_count THEN {Err("UnexpectedVariant")}
    ELSE {Converted(v) : v \in InvalidDiscriminant(E)}
           \cup {Err("UnexpectedVariant")}

VARIABLES
    refCount,       \* the native library's count of outstanding initializations
    faults,         \* unexpected failures the native library has answered so far
    shutdownCalls,  \* native shutdown calls made so far
    sess,           \* per Session: "none", "failed", "live", "ended"
    tiedDev,        \* per Session: a Device borrowed from it is alive
    freeDev,        \* per Session: a Device made by Device::from(raw) is alive
    last,           \* the most recent operation and what it did and returned
    evState,        \* per EventSet: "none", "valid", "undefined", "freed"
    evHeld,         \* per EventSet: the caller owns the EventSet value
    evFreeCalls,    \* per EventSet: native free calls made on it
    lastEv,         \* the most recent EventSet operation
    evAlias,        \* per EventSet: a second EventSet of the same native set exists
    evIn,           \* per EventSet: "failed" while register_events is between
                    \* its failed registration call and its destroy call
    native          \* what the native library holds and writes on a query

lifeVars == <<refCount, faults, shutdownCalls, sess, tiedDev, freeDev, last>>
evVars == <<evState, evHeld, evFreeCalls, lastEv, evAlias, evIn>>
vars == <<lifeVars, evVars, native>>

\* What the most recent operation was: the Session it was called on or whose
\* handle it used, the status of its native call, the status of the native
\* call Drop made (if Drop ran), the native calls it made, whether it
\* panicked, the Result it returned, and whether it is the same method on
\* the same Session as the operation before it.
Call(op, s, status, dropStatus, calls, panicked, ret, again) ==
    [op |-> op, session |-> s, status |-> status, dropStatus |-> dropStatus,
     calls |-> calls, panicked |-> panicked, ret |-> ret, again |-> again]

Op(op, s, status, dropStatus, calls, panicked, ret) ==
    Call(op, s, status, dropStatus, calls, panicked, ret,
         last.op = op /\ last.session = s)

Unwound == [kind |-> "panic", value |-> NoValue, cause |-> "none"]

LiveSessions == {s \in Sessions : sess[s] = "live"}
EndedSessions == {s \in Sessions : sess[s] = "ended"}

\* ------------------------------------------------ the native library
\* An unexpected failure is available while the fault budget lasts.
Injected(codes, f) == IF f < MaxFaults THEN codes ELSE {}

\* nvmlInit_v2: counts one more initialization, unless it fails.
nvmlInit_statuses(f) ==
    {NVML_SUCCESS}
      \cup Injected({NVML_ERROR_DRIVER_NOT_LOADED, NVML_ERROR_NO_PERMISSION,
                     NVML_ERROR_UNKNOWN}, f)

nvmlInit_refCount(rc, status) ==
    IF status = NVML_SUCCESS THEN rc + 1 ELSE rc

\* nvmlShutdown: Uninitialized when nothing is initialized; otherwise it
\* releases one reference, the library being torn down at zero.
nvmlShutdown_statuses(rc, f) ==
    IF rc = 0
    THEN {NVML_ERROR_UNINITIALIZED}
    ELSE {NVML_SUCCESS} \cup Injected({NVML_ERROR_UNKNOWN}, f)

nvmlShutdown_refCount(rc, status) ==
    IF status = NVML_SUCCESS THEN rc - 1 ELSE rc

\* Every query answers Uninitialized while the library is not initialized.
nvmlQuery_statuses(rc, f, failures) ==
    IF rc = 0
    THEN {NVML_ERROR_UNINITIALIZED}
    ELSE {NVML_SUCCESS} \cup Injected(failures, f)

\* nvmlDeviceGetHandleByIndex_v2: InvalidArg for an index that is no device.
nvmlDeviceGetHandleByIndex_statuses(rc, index) ==
    IF rc = 0 THEN {NVML_ERROR_UNINITIALIZED}
    ELSE IF index >= NumDevices THEN {NVML_ERROR_INVALID_ARGUMENT}
    ELSE {NVML_SUCCESS}

IsFault(status) == status \notin {NVML_SUCCESS, NVML_ERROR_UNINITIALIZED,
                                  NVML_ERROR_INVALID_ARGUMENT,
                                  NVML_ERROR_INSUFFICIENT_SIZE,
                                  NVML_ERROR_NOT_FOUND}
Charge(f, status) == IF IsFault(status) THEN f + 1 ELSE f

\* nvmlEventSetCreate.
nvmlEventSetCreate_statuses(rc) ==
    IF rc = 0 THEN {NVML_ERROR_UNINITIALIZED}
    ELSE {NVML_SUCCESS, NVML_ERROR_UNKNOWN}

\* nvmlDeviceRegisterEvents: after Unknown the set is in an undefined state
\* and should be freed; after any other status it is as it was.
nvmlDeviceRegisterEvents_statuses(rc) ==
    IF rc = 0 THEN {NVML_ERROR_UNINITIALIZED}
    ELSE {NVML_SUCCESS, NVML_ERROR_UNKNOWN, NVML_ERROR_NOT_SUPPORTED,
          NVML_ERROR_INVALID_ARGUMENT}

nvmlDeviceRegisterEvents_state(state, status) ==
    IF status = NVML_ERROR_UNKNOWN THEN "undefined" ELSE state

\* nvmlEventSetFree.
nvmlEventSetFree_statuses(rc) ==
    IF rc = 0 THEN {NVML_ERROR_UNINITIALIZED}
    ELSE {NVML_SUCCESS, NVML_ERROR_UNKNOWN}

nvmlEventSetFree_state(state, status) ==
    IF status = NVML_SUCCESS THEN "freed" ELSE state

\* ------------------------------------------------ what the native library writes
\* The enum value a query is answered with: the wrapper enum of its type and
\* the native value.
EnumValues ==
    UNION {{[enum |-> E.name, c |-> c] : c \in NativeValues(E)} : E \in EnumWrappers}

\* String buffers: the StrCap bytes of the buffer as the native call leaves
\* them, and the memory that follows the buffer (empty: nothing readable).
StrCap == 3
Bytes == {0, 65, 169, 195, 255}
Buffers == [1..StrCap -> Bytes]
Tails == {<< >>, <<0>>, <<65, 0>>}

\* Arrays: the elements the native library has to report, and the
\* capacities a caller asks for.
MaxItems == 3
MaxSize == 4
MaxWords == 2
ItemValues == {7, 9}
ItemLists == UNION {[1..n -> ItemValues] : n \in 0..MaxItems}

\* Accounting statistics: the widths of c_uint / u32 and of
\* c_ulonglong / u64, scaled to a few bits, and every value of a field.
U32Bits == 2
U64Bits == 3
U32 == 0..(2 ^ U32Bits - 1)
U64 == 0..(2 ^ U64Bits - 1)

NativeDefault ==
    [enumValue |-> [enum |-> "Brand", c |-> "NVML_BRAND_TESLA"],
     buf |-> [i \in 1..StrCap |-> IF i = 1 THEN 65 ELSE 0],
     tail |-> <<0>>,
     items |-> <<7>>,
     target_os |-> "linux",
     stats |-> [gpuUtilization |-> 1, isRunning |-> 1, maxMemoryUsage |-> 1,
                memoryUtilization |-> 1, startTime |-> 0, time |-> 0]]

\* ------------------------------------------------ the Session (NVML)
NoEv == [op |-> "none", set |-> 0, status |-> "none", freeStatus |-> "none",
         destroys |-> 0, ret |-> NotCalled]

EvInit ==
    /\ evState = [k \in Sets |-> "none"]
    /\ evHeld = [k \in Sets |-> FALSE]
    /\ evFreeCalls = [k \in Sets |-> 0]
    /\ lastEv = NoEv
    /\ evAlias = [k \in Sets |-> FALSE]
    /\ evIn = [k \in Sets |-> "none"]

Init ==
    /\ refCount = 0
    /\ faults = 0
    /\ shutdownCalls = 0
    /\ sess = [s \in Sessions |-> "none"]
    /\ tiedDev = [s \in Sessions |-> FALSE]
    /\ freeDev = [s \in Sessions |-> FALSE]
    /\ last = Call("none", 0, "none", "none", 0, FALSE, NotCalled, FALSE)
    /\ EvInit
    /\ native = NativeDefault

\* NVML::init(): the Session exists only if the native call succeeded.
init_result_unchecked(status) == Ok("NVML")

init_result(status) ==
    IF nvml_try(status) = "Ok" THEN Ok("NVML") ELSE Err(nvml_try(status))

init(s) ==
    /\ sess[s] = "none"
    /\ \E status \in nvmlInit_statuses(faults) :
         /\ refCount' = nvmlInit_refCount(refCount, status)
         /\ faults' = Charge(faults, status)
         /\ sess' = [sess EXCEPT ![s] =
                        IF init_result(status).kind = "Ok" THEN "live" ELSE "failed"]
         /\ last' = Op("init", s, status, "none", 1, FALSE, init_result(status))
    /\ UNCHANGED <<shutdownCalls, tiedDev, freeDev>>
    /\ UNCHANGED <<evVars, native>>

\* impl Drop for NVML: one native shutdown call; an error it returns is
\* printed and then panics.
Drop_ignores_error(status) == FALSE

Drop_panics(status) == nvml_try(status) # "Ok"

\* A Device borrowed from the Session keeps the Session from being moved
\* or dropped (the lifetime 'nvml elided onto &self).
CanEnd(s) == sess[s] = "live" /\ ~tiedDev[s]

\* Scope exit: the Session is dropped without shutdown().
scope_exit(s) ==
    /\ CanEnd(s)
    /\ \E status \in nvmlShutdown_statuses(refCount, faults) :
         /\ refCount' = nvmlShutdown_refCount(refCount, status)
         /\ faults' = Charge(faults, status)
         /\ last' = Op("scope_exit", s, "none", status, 1, Drop_panics(status),
                       IF Drop_panics(status) THEN Unwound ELSE NotCalled)
    /\ shutdownCalls' = shutdownCalls + 1
    /\ sess' = [sess EXCEPT ![s] = "ended"]
    /\ UNCHANGED <<tiedDev, freeDev>>
    /\ UNCHANGED <<evVars, native>>

\* NVML::shutdown(self): the native call of its body, whose result is the
\* return value, and then, self going out of scope at the end of the body,
\* the call of Drop.
shutdown_result(status) ==
    IF nvml_try(status) = "Ok" THEN Ok("unit") ELSE Err(nvml_try(status))

shutdown(s) ==
    /\ CanEnd(s)
    /\ \E st1 \in nvmlShutdown_statuses(refCount, faults) :
         LET rc1 == nvmlShutdown_refCount(refCount, st1)
             f1 == Charge(faults, st1)
         IN  \E st2 \in nvmlShutdown_statuses(rc1, f1) :
                /\ refCount' = nvmlShutdown_refCount(rc1, st2)
                /\ faults' = Charge(f1, st2)
                /\ last' = Op("shutdown", s, st1, st2, 2, Drop_panics(st2),
                              IF Drop_panics(st2) THEN Unwound
                              ELSE shutdown_result(st1))
    /\ shutdownCalls' = shutdownCalls + 2
    /\ sess' = [sess EXCEPT ![s] = "ended"]
    /\ UNCHANGED <<tiedDev, freeDev>>
    /\ UNCHANGED <<evVars, native>>

\* NVML::device_count().
device_count_result(status, count) ==
    IF nvml_try(status) = "Ok" THEN Ok(count) ELSE Err(nvml_try(status))

device_count(s) ==
    /\ sess[s] = "live"
    /\ \E status \in nvmlQuery_statuses(refCount, faults, {NVML_ERROR_UNKNOWN}) :
         /\ faults' = Charge(faults, status)
         /\ last' = Op("device_count", s, status, "none", 1, FALSE,
                       device_count_result(status, NumDevices))
    /\ UNCHANGED <<refCount, shutdownCalls, sess, tiedDev, freeDev>>
    /\ UNCHANGED <<evVars, native>>

\* NVML::device_by_index(): a Device only when the native status is success.
device_by_index_result(status, handle) ==
    IF nvml_try(status) = "Ok" THEN Ok(handle) ELSE Err(nvml_try(status))

device_by_index(s, index) ==
    /\ sess[s] = "live"
    /\ ~tiedDev[s]
    /\ \E status \in nvmlDeviceGetHandleByIndex_statuses(refCount, index) :
         LET r == device_by_index_result(status, "Device")
         IN  /\ last' = Op("device_by_index", s, status, "none", 1, FALSE, r)
             /\ tiedDev' = [tiedDev EXCEPT ![s] = (r.kind = "Ok")]
    /\ UNCHANGED <<refCount, faults, shutdownCalls, sess, freeDev>>
    /\ UNCHANGED <<evVars, native>>

\* Device::from(device.c_device()): From<nvmlDevice_t> leaves the lifetime
\* of the new Device free, so it borrows from no Session.
Device_from(s) ==
    /\ tiedDev[s]
    /\ ~freeDev[s]
    /\ freeDev' = [freeDev EXCEPT ![s] = TRUE]
    /\ last' = Op("Device_from", s, "none", "none", 0, FALSE, Ok("Device"))
    /\ UNCHANGED <<refCount, faults, shutdownCalls, sess, tiedDev>>
    /\ UNCHANGED <<evVars, native>>

\* The borrowed Device goes out of scope.
drop_device(s) ==
    /\ tiedDev[s]
    /\ tiedDev' = [tiedDev EXCEPT ![s] = FALSE]
    /\ last' = Op("drop_device", s, "none", "none", 0, FALSE, NotCalled)
    /\ UNCHANGED <<refCount, faults, shutdownCalls, sess, freeDev>>
    /\ UNCHANGED <<evVars, native>>

\* Device::fan_speed(), as every Device query: one native call, a value only
\* when its status is success.
fan_speed_unchecked(status, speed) == Ok(speed)

fan_speed_result(status, speed) ==
    IF nvml_try(status) = "Ok" THEN Ok(speed) ELSE Err(nvml_try(status))

HasHandle(s, h) == IF h = "tied" THEN tiedDev[s] ELSE freeDev[s]

fan_speed(s, h) ==
    /\ HasHandle(s, h)
    /\ \E status \in nvmlQuery_statuses(refCount, faults, {NVML_ERROR_NOT_SUPPORTED}) :
         /\ faults' = Charge(faults, status)
         /\ last' = Op("fan_speed", s, status, "none", 1, FALSE,
                       fan_speed_result(status, "speed"))
    /\ UNCHANGED <<refCount, shutdownCalls, sess, tiedDev, freeDev>>
    /\ UNCHANGED <<evVars, native>>

\* ------------------------------------------------ handles looked up by a string
\* The strings callers pass, as bytes: "G0", "P0", and "G", NUL, "0".
CallerStrings == {<<71, 48>>, <<80, 48>>, <<71, 0, 48>>}

\* The UUID and the PCI bus id of device d.
Uuid(d) == <<71, 48 + d>>
PciBusId(d) == <<80, 48 + d>>

\* CString::new(bytes): the NulError when a byte is 0, else the bytes with
\* the terminator appended.
CString_new_unchecked(bytes) == Ok(bytes \o <<0>>)

CString_new(bytes) ==
    IF \E i \in DOMAIN bytes : bytes[i] = 0 THEN Err("NulError")
    ELSE Ok(bytes \o <<0>>)

\* nvmlDeviceGetHandleByUUID and nvmlDeviceGetHandleByPciBusId_v2: NotFound
\* when the string names no device.
nvmlDeviceGetHandleByUUID_statuses(rc, c_string) ==
    IF rc = 0 THEN {NVML_ERROR_UNINITIALIZED}
    ELSE IF \E d \in 0..(NumDevices - 1) : c_string = Uuid(d) \o <<0>>
         THEN {NVML_SUCCESS}
    ELSE {NVML_ERROR_NOT_FOUND}

nvmlDeviceGetHandleByPciBusId_statuses(rc, c_string) ==
    IF rc = 0 THEN {NVML_ERROR_UNINITIALIZED}
    ELSE IF \E d \in 0..(NumDevices - 1) : c_string = PciBusId(d) \o <<0>>
         THEN {NVML_SUCCESS}
    ELSE {NVML_ERROR_NOT_FOUND}

\* A lookup by string: CString::new(string)? first, then the one native call.
ByString(op, s, string) ==
    /\ sess[s] = "live"
    /\ ~tiedDev[s]
    /\ LET c_string == CString_new(string)
       IN  IF c_string.kind # "Ok"
           THEN /\ last' = Op(op, s, "none", "none", 0, FALSE, c_string)
                /\ UNCHANGED tiedDev
           ELSE \E status \in
                    (IF op = "device_by_uuid"
                     THEN nvmlDeviceGetHandleByUUID_statuses(refCount, c_string.value)
                     ELSE nvmlDeviceGetHandleByPciBusId_statuses(refCount, c_string.value)) :
                  LET r == device_by_index_result(status, "Device")
                  IN  /\ last' = Op(op, s, status, "none", 1, FALSE, r)
                      /\ tiedDev' = [tiedDev EXCEPT ![s] = (r.kind = "Ok")]
    /\ UNCHANGED <<refCount, faults, shutdownCalls, sess, freeDev>>
    /\ UNCHANGED <<evVars, native>>

\* NVML::device_by_pci_bus_id().
device_by_pci_bus_id(s, pci_bus_id) ==
    /\ pci_bus_id \in CallerStrings
    /\ ByString("device_by_pci_bus_id", s, pci_bus_id)

\* NVML::device_by_uuid().
device_by_uuid(s, uuid) ==
    /\ uuid \in CallerStrings
    /\ ByString("device_by_uuid", s, uuid)

\* ------------------------------------------------ count-reported array queries
\* The native array call is handed a capacity in *count and an address. It
\* answers InsufficientSize when it has more elements than the capacity;
\* otherwise it writes its elements from the address on. *count is set to
\* the number of elements it has.
nvmlArrayQuery_statuses(rc, size, items) ==
    IF rc = 0 THEN {NVML_ERROR_UNINITIALIZED}
    ELSE IF size < Len(items) THEN {NVML_ERROR_INSUFFICIENT_SIZE}
    ELSE {NVML_SUCCESS}

nvmlArrayQuery_count(status, size, items) ==
    IF status = NVML_ERROR_UNINITIALIZED THEN size ELSE Len(items)

\* The storage every array query hands over is the one zeroed local
\* first_item: after the call it holds the first element written, if any.
first_item_after(status, items) ==
    IF status = NVML_SUCCESS /\ Len(items) >= 1 THEN items[1] ELSE 0

\* The storage handed over, `let mut first_item: T = mem::zeroed()`, has
\* room for one element; the capacity handed over with it, `size as c_uint`,
\* is the caller's size (the sizes explored are far below the 32 bits of
\* c_uint, where the cast changes nothing).
first_item_room == 1
count_in(size) == size

\* What a read outside first_item can find: the elements the native call
\* wrote there, or whatever has replaced them.
Garbage == ItemValues \cup {0}

\* slice::from_raw_parts(&first_item, count): the first element is
\* first_item; reading any further element leaves the storage and is
\* undefined.
from_raw_parts(first_item, count) ==
    IF count = 0 THEN {Ok(<< >>)}
    ELSE IF count <= first_item_room THEN {Ok(<<first_item>>)}
    ELSE {Ok(<<first_item>> \o rest) : rest \in [1..(count - 1) -> Garbage]}
           \cup {Undefined}

\* slice::from_raw_parts(first_item as *const c_uint, count): the address is
\* the value of first_item, not the address of the storage; reading any
\* element there is undefined.
from_raw_parts_at_value(first_item, count) ==
    IF count = 0 THEN {Ok(<< >>)}
    ELSE {Ok(elems) : elems \in [1..count -> Garbage]} \cup {Undefined}

\* From<nvmlProcessInfo_t> for ProcessInfo.
ProcessInfo_from(struct_) ==
    [pid |-> struct_.pid,
     used_gpu_memory |-> <<"UsedGpuMemory", struct_.usedGpuMemory>>]

\* The nvmlProcessInfo_t of the process that element x stands for.
nvmlProcessInfo_t(x) == [pid |-> x, usedGpuMemory |-> x]

\* slice.iter().map(|info| ProcessInfo::from(*info)).collect()
ProcessInfos(slice) ==
    IF slice.kind # "Ok" THEN slice
    ELSE Ok([i \in DOMAIN slice.value |->
               ProcessInfo_from(nvmlProcessInfo_t(slice.value[i]))])

\* What a successful array call leaves behind for the elements native.items:
\* first_item and the count written back.
FirstItem == first_item_after(NVML_SUCCESS, native.items)
Count(size) == nvmlArrayQuery_count(NVML_SUCCESS, count_in(size), native.items)

\* An array query: the one native call, and on success the elements read
\* back from the storage (marshalled: the outcomes of that read).
ArrayQuery(op, s, h, size, marshalled) ==
    /\ HasHandle(s, h)
    /\ \E status \in nvmlArrayQuery_statuses(refCount, size, native.items) :
       \E r \in (IF nvml_try(status) # "Ok" THEN {Err(nvml_try(status))}
                 ELSE marshalled) :
         last' = Op(op, s, status, "none", 1, FALSE, r)
    /\ UNCHANGED <<refCount, faults, shutdownCalls, sess, tiedDev, freeDev>>
    /\ UNCHANGED <<evVars, native>>

\* Device::running_compute_processes(size).
running_compute_processes(s, h, size) ==
    /\ size \in Nat
    /\ ArrayQuery("running_compute_processes", s, h, size,
                  {ProcessInfos(slice) :
                     slice \in from_raw_parts(FirstItem, Count(size))})

\* Device::running_graphics_processes(size).
running_graphics_processes(s, h, size) ==
    /\ size \in Nat
    /\ ArrayQuery("running_graphics_processes", s, h, size,
                  {ProcessInfos(slice) :
                     slice \in from_raw_parts(FirstItem, Count(size))})

\* Device::retired_pages(cause, size).
retired_pages(s, h, size) ==
    /\ size \in Nat
    /\ ArrayQuery("retired_pages", s, h, size,
                  from_raw_parts(FirstItem, Count(size)))

\* Device::supported_graphics_clocks(for_mem_clock, size).
supported_graphics_clocks(s, h, size) ==
    /\ size \in Nat
    /\ ArrayQuery("supported_graphics_clocks", s, h, size,
                  from_raw_parts(FirstItem, Count(size)))

\* Device::supported_memory_clocks(size).
supported_memory_clocks(s, h, size) ==
    /\ size \in Nat
    /\ ArrayQuery("supported_memory_clocks", s, h, size,
                  from_raw_parts(FirstItem, Count(size)))

\* Device::accounting_pids(size).
accounting_pids(s, h, size) ==
    /\ size \in Nat
    /\ ArrayQuery("accounting_pids", s, h, size,
                  from_raw_parts_at_value(FirstItem, Count(size)))

\* nvmlDeviceGetCpuAffinity(device, cpuSetSize, cpuSet): InvalidArg for a
\* size of 0; otherwise it writes cpuSetSize bitmask words from cpuSet on,
\* the words of the ideal processors first, the rest being 0.
nvmlDeviceGetCpuAffinity_statuses(rc, size) ==
    IF rc = 0 THEN {NVML_ERROR_UNINITIALIZED}
    ELSE IF size = 0 THEN {NVML_ERROR_INVALID_ARGUMENT}
    ELSE {NVML_SUCCESS}

cpuSet(size) ==
    [i \in 1..size |-> IF i <= Len(native.items) THEN native.items[i] ELSE 0]

\* Device::cpu_affinity(size): the one local first_item is what is handed
\* to the native call; the words are then read from the address that the
\* value of first_item is.
cpu_affinity(s, h, size) ==
    /\ size \in Nat
    /\ HasHandle(s, h)
    /\ \E status \in nvmlDeviceGetCpuAffinity_statuses(refCount, size) :
       \E r \in (IF nvml_try(status) # "Ok" THEN {Err(nvml_try(status))}
                 ELSE from_raw_parts_at_value(cpuSet(size)[1], size)) :
         last' = Op("cpu_affinity", s, status, "none", 1, FALSE, r)
    /\ UNCHANGED <<refCount, faults, shutdownCalls, sess, tiedDev, freeDev>>
    /\ UNCHANGED <<evVars, native>>

Next ==
    \/ \E s \in Sessions : init(s)
    \/ \E s \in Sessions : scope_exit(s)
    \/ \E s \in Sessions : shutdown(s)
    \/ \E s \in Sessions : device_count(s)
    \/ \E s \in Sessions : \E index \in 0..NumDevices : device_by_index(s, index)
    \/ \E s \in Sessions : Device_from(s)
    \/ \E s \in Sessions : drop_device(s)
    \/ \E s \in Sessions : \E h \in {"tied", "free"} : fan_speed(s, h)
    \/ \E s \in Sessions : \E id \in CallerStrings : device_by_pci_bus_id(s, id)
    \/ \E s \in Sessions : \E uuid \in CallerStrings : device_by_uuid(s, uuid)
    \/ \E s \in Sessions : \E h \in {"tied", "free"} : \E size \in 0..MaxSize :
          running_compute_processes(s, h, size)
    \/ \E s \in Sessions : \E h \in {"tied", "free"} : \E size \in 0..MaxSize :
          retired_pages(s, h, size)

Spec == Init /\ [][Next]_vars

\* ------------------------------------------------ EventSet and registration
\* NVML::create_event_set().
create_event_set_result(status, set) ==
    IF nvml_try(status) = "Ok" THEN Ok(set) ELSE Err(nvml_try(status))

create_event_set(s, k) ==
    /\ sess[s] = "live"
    /\ evState[k] = "none"
    /\ \E status \in nvmlEventSetCreate_statuses(refCount) :
         LET r == create_event_set_result(status, k)
         IN  /\ evState' = [evState EXCEPT ![k] =
                               IF status = NVML_SUCCESS THEN "valid" ELSE @]
             /\ evHeld' = [evHeld EXCEPT ![k] = (r.kind = "Ok")]
             /\ lastEv' = [op |-> "create_event_set", set |-> k,
                           status |-> status, freeStatus |-> "none",
                           destroys |-> 0, ret |-> r]
    /\ UNCHANGED <<evFreeCalls, evAlias, evIn, lifeVars, native>>

\* EventSet::destroy(self): consumes the set and issues the one native free
\* call, whose translated status it returns.
EventSet_destroy(freeStatus) ==
    IF nvml_try(freeStatus) = "Ok" THEN Ok("unit") ELSE Err(nvml_try(freeStatus))

destroy(k) ==
    /\ evHeld[k]
    /\ \E freeStatus \in nvmlEventSetFree_statuses(refCount) :
         /\ evState' = [evState EXCEPT ![k] = nvmlEventSetFree_state(@, freeStatus)]
         /\ lastEv' = [op |-> "destroy", set |-> k, status |-> "none",
                       freeStatus |-> freeStatus, destroys |-> 1,
                       ret |-> EventSet_destroy(freeStatus)]
    /\ evHeld' = [evHeld EXCEPT ![k] = FALSE]
    /\ evFreeCalls' = [evFreeCalls EXCEPT ![k] = @ + 1]
    /\ UNCHANGED <<evAlias, evIn, lifeVars, native>>

\* chain_err(|| msg): a new error whose cause is the error it wraps.
chain_err(r, msg) ==
    IF r.kind = "Ok" THEN r
    ELSE [kind |-> msg, value |-> NoValue, cause |-> r.kind]

\* Device::register_events(&self, events, set: EventSet): the set is moved
\* in; what is returned, how many destroy calls are issued on the set, and
\* whether the caller has the set afterwards.
register_events_never_destroys(status, freeStatus, set) ==
    IF nvml_try(status) = "Ok"
    THEN [ret |-> Ok(set), destroys |-> 0, held |-> TRUE]
    ELSE [ret |-> Err(nvml_try(status)), destroys |-> 0, held |-> FALSE]

register_events_outcome(status, freeStatus, set) ==
    CASE nvml_try(status) = "Ok" ->
           [ret |-> Ok(set), destroys |-> 0, held |-> TRUE]
      [] nvml_try(status) = "Unknown" ->
           [ret |-> IF EventSet_destroy(freeStatus).kind = "Ok"
                    THEN Err("Unknown")
                    ELSE chain_err(EventSet_destroy(freeStatus),
                                   "Error is from destroy call"),
            destroys |-> 1, held |-> FALSE]
      [] OTHER ->
           [ret |-> Err(nvml_try(status)), destroys |-> 0, held |-> FALSE]

register_events(s, k) ==
    /\ tiedDev[s]
    /\ evHeld[k]
    /\ \E status \in nvmlDeviceRegisterEvents_statuses(refCount) :
       \E freeStatus \in (IF status = NVML_ERROR_UNKNOWN
                          THEN nvmlEventSetFree_statuses(refCount)
                          ELSE {"none"}) :
         LET o == register_events_outcome(status, freeStatus, k)
             st1 == nvmlDeviceRegisterEvents_state(evState[k], status)
         IN  /\ evState' = [evState EXCEPT ![k] =
                   IF o.destroys = 0 THEN st1
                   ELSE nvmlEventSetFree_state(st1, freeStatus)]
             /\ evHeld' = [evHeld EXCEPT ![k] = o.held]
             /\ evFreeCalls' = [evFreeCalls EXCEPT ![k] = @ + o.destroys]
             /\ lastEv' = [op |-> "register_events", set |-> k,
                           status |-> status, freeStatus |-> freeStatus,
                           destroys |-> o.destroys, ret |-> o.ret]
    /\ UNCHANGED <<evAlias, evIn, lifeVars, native>>

\* Event registration is explored from the state after init() and
\* device_by_index(0) on the first Session.
WithDevice ==
    /\ refCount = 1
    /\ faults = 0
    /\ shutdownCalls = 0
    /\ sess = [s \in Sessions |-> IF s = 1 THEN "live" ELSE "none"]
    /\ tiedDev = [s \in Sessions |-> s = 1]
    /\ freeDev = [s \in Sessions |-> FALSE]
    /\ last = Call("device_by_index", 1, NVML_SUCCESS, "none", 1, FALSE,
                   device_by_index_result(NVML_SUCCESS, "Device"), FALSE)
    /\ EvInit

InitEvents ==
    /\ WithDevice
    /\ native = NativeDefault

NextEvents ==
    \/ \E s \in Sessions : \E k \in Sets : create_event_set(s, k)
    \/ \E s \in Sessions : \E k \in Sets : register_events(s, k)
    \/ \E k \in Sets : destroy(k)

SpecEvents == InitEvents /\ [][NextEvents]_vars

\* ------------------------------------------------ registration among threads
\* EventSet::from(set.c_set()): From<nvmlEventSet_t>, which create_event_set
\* uses, applied to the raw handle c_set() hands out, gives a second
\* EventSet of the same native set.
EventSet_from(k) ==
    /\ evHeld[k]
    /\ ~evAlias[k]
    /\ evAlias' = [evAlias EXCEPT ![k] = TRUE]
    /\ lastEv' = [op |-> "EventSet_from", set |-> k, status |-> "none",
                  freeStatus |-> "none", destroys |-> 0, ret |-> Ok(k)]
    /\ UNCHANGED <<evState, evHeld, evFreeCalls, evIn, lifeVars, native>>

\* EventSet::wait(&self, ..) on the second EventSet, from another thread.
wait(k) ==
    /\ evAlias[k]
    /\ \E status \in (IF refCount = 0 THEN {NVML_ERROR_UNINITIALIZED}
                      ELSE {NVML_SUCCESS, NVML_ERROR_UNKNOWN}) :
         lastEv' = [op |-> "wait", set |-> k, status |-> status,
                    freeStatus |-> "none", destroys |-> 0,
                    ret |-> IF nvml_try(status) = "Ok" THEN Ok(evState[k])
                            ELSE Err(nvml_try(status))]
    /\ UNCHANGED <<evState, evHeld, evFreeCalls, evAlias, evIn, lifeVars, native>>

\* Device::register_events as the two native calls it is made of, other
\* threads running in between. First the registration call: the set has
\* been moved in; it is handed back on Ok, dropped on an error other than
\* Unknown, and on Unknown the method goes on to the destroy call.
register_events_call(s, k) ==
    /\ tiedDev[s]
    /\ evHeld[k]
    /\ evIn[k] = "none"
    /\ \E status \in nvmlDeviceRegisterEvents_statuses(refCount) :
         /\ evState' = [evState EXCEPT ![k] =
                           nvmlDeviceRegisterEvents_state(@, status)]
         /\ evHeld' = [evHeld EXCEPT ![k] = (nvml_try(status) = "Ok")]
         /\ evIn' = [evIn EXCEPT ![k] =
                        IF nvml_try(status) = "Unknown" THEN "failed" ELSE "none"]
         /\ lastEv' = [op |-> "register_events", set |-> k, status |-> status,
                       freeStatus |-> "none", destroys |-> 0,
                       ret |-> IF nvml_try(status) = "Unknown" THEN NotCalled
                               ELSE register_events_outcome(status, "none", k).ret]
    /\ UNCHANGED <<evFreeCalls, evAlias, lifeVars, native>>

\* Then, after Unknown, set.destroy() and the return.
register_events_destroy(k) ==
    /\ evIn[k] = "failed"
    /\ \E freeStatus \in nvmlEventSetFree_statuses(refCount) :
         /\ evState' = [evState EXCEPT ![k] = nvmlEventSetFree_state(@, freeStatus)]
         /\ lastEv' = [op |-> "register_events", set |-> k,
                       status |-> NVML_ERROR_UNKNOWN, freeStatus |-> freeStatus,
                       destroys |-> 1,
                       ret |-> register_events_outcome(NVML_ERROR_UNKNOWN,
                                                       freeStatus, k).ret]
    /\ evFreeCalls' = [evFreeCalls EXCEPT ![k] = @ + 1]
    /\ evIn' = [evIn EXCEPT ![k] = "none"]
    /\ UNCHANGED <<evHeld, evAlias, lifeVars, native>>

NextThreads ==
    \/ \E s \in Sessions : \E k \in Sets : create_event_set(s, k)
    \/ \E k \in Sets : EventSet_from(k)
    \/ \E k \in Sets : wait(k)
    \/ \E s \in Sessions : \E k \in Sets : register_events_call(s, k)
    \/ \E k \in Sets : register_events_destroy(k)
    \/ \E k \in Sets : destroy(k)

SpecThreads == InitEvents /\ [][NextThreads]_vars


\* ------------------------------------------------ enum conversions
\* The conversion from the native enum to the wrapper that the derive macro
\* gives an enum: try_from with has_count, From without.
from_native(E, c) ==
    IF E.has_count # "none" THEN try_from(E, c)
    ELSE {Converted(v) : v \in from(E, c)}

AnswersWith(E) == native.enumValue.enum = E.name

\* A conversion applied on its own, outside any Session.
Pure(op, ret) == Op(op, 0, "none", "none", 0, FALSE, ret)

\* variant.into_c(), as the commands do with their enum arguments; the
\* enum is the one the native library is holding a value of.
to_native(E, v) ==
    /\ AnswersWith(E)
    /\ last' = Pure("into_c", Ok([enum |-> E.name, variant |-> v,
                                  c |-> into_c(E, v)]))
    /\ UNCHANGED <<refCount, faults, shutdownCalls, sess, tiedDev, freeDev>>
    /\ UNCHANGED <<evVars, native>>

\* The native constant into_c() gave, converted back to the wrapper.
back_from_native ==
    /\ last.op = "into_c"
    /\ \E r \in from_native(Enum(last.ret.value.enum), last.ret.value.c) :
         last' = Pure("from_native", r)
    /\ UNCHANGED <<refCount, faults, shutdownCalls, sess, tiedDev, freeDev>>
    /\ UNCHANGED <<evVars, native>>

\* The Device queries that return an enum: one native call that writes the
\* native value, then the conversion.
EnumQuery(op, s, h, converted) ==
    /\ HasHandle(s, h)
    /\ \E status \in nvmlQuery_statuses(refCount, faults, {NVML_ERROR_NOT_SUPPORTED}) :
       \E r \in (IF nvml_try(status) # "Ok" THEN {Err(nvml_try(status))}
                 ELSE converted) :
         /\ faults' = Charge(faults, status)
         /\ last' = Op(op, s, status, "none", 1, FALSE, r)
    /\ UNCHANGED <<refCount, shutdownCalls, sess, tiedDev, freeDev>>
    /\ UNCHANGED <<evVars, native>>

\* Device::brand(): Ok(Brand::try_from(brand)?).
brand(s, h) ==
    /\ AnswersWith(Brand)
    /\ EnumQuery("brand", s, h, try_from(Brand, native.enumValue.c))

\* Device::performance_state(): Ok(state.into()).
performance_state(s, h) ==
    /\ AnswersWith(PerformanceState)
    /\ EnumQuery("performance_state", s, h,
                 {Converted(v) : v \in from(PerformanceState, native.enumValue.c)})

\* Device::power_state(): Ok(state.into()).
power_state(s, h) ==
    /\ AnswersWith(PerformanceState)
    /\ EnumQuery("power_state", s, h,
                 {Converted(v) : v \in from(PerformanceState, native.enumValue.c)})

\* Device::gpu_operation_mode(): the current and the pending mode, each
\* converted with into(); the native value is written as both.
gpu_operation_mode(s, h) ==
    /\ AnswersWith(OperationMode)
    /\ EnumQuery("gpu_operation_mode", s, h,
                 {IF NoVariant \in {current, pending} THEN Undefined
                  ELSE Ok([current |-> current, pending |-> pending]) :
                    current \in from(OperationMode, native.enumValue.c),
                    pending \in from(OperationMode, native.enumValue.c)})

\* Device::topology_common_ancestor(): Ok(level.into()).
topology_common_ancestor(s, h) ==
    /\ AnswersWith(TopologyLevel)
    /\ EnumQuery("topology_common_ancestor", s, h,
                 {Converted(v) : v \in from(TopologyLevel, native.enumValue.c)})

\* From<nvmlBridgeChipInfo_t> for BridgeChipInfo: the chip type converted
\* with BridgeChip::from; the conversion has no error to return.
BridgeChipInfo_from(struct_) ==
    {IF v = NoVariant THEN Undefined
     ELSE Ok([fw_version |-> <<"FirmwareVersion", struct_.fwVersion>>,
              chip_type |-> v]) : v \in from(BridgeChip, struct_.type_)}

bridge_chip_info_entry ==
    /\ AnswersWith(BridgeChip)
    /\ \E r \in BridgeChipInfo_from([type_ |-> native.enumValue.c, fwVersion |-> 0]) :
         last' = Pure("BridgeChipInfo_from", r)
    /\ UNCHANGED <<refCount, faults, shutdownCalls, sess, tiedDev, freeDev>>
    /\ UNCHANGED <<evVars, native>>

\* From<nvmlUnitFanInfo_t> for FanInfo: the state converted with into().
FanInfo_from(struct_) ==
    {IF v = NoVariant THEN Undefined
     ELSE Ok([speed |-> struct_.speed, state |-> v]) :
       v \in from(FanState, struct_.state)}

unit_fan_info_entry ==
    /\ AnswersWith(FanState)
    /\ \E r \in FanInfo_from([state |-> native.enumValue.c, speed |-> 0]) :
         last' = Pure("FanInfo_from", r)
    /\ UNCHANGED <<refCount, faults, shutdownCalls, sess, tiedDev, freeDev>>
    /\ UNCHANGED <<evVars, native>>

\* Enum conversions are explored from the state after init() and
\* device_by_index(0), for every value the native library can answer with.
InitEnums ==
    /\ WithDevice
    /\ native \in {[NativeDefault EXCEPT !.enumValue = x] : x \in EnumValues}

NextEnums ==
    \/ \E E \in EnumWrappers : \E v \in Variants(E) : to_native(E, v)
    \/ back_from_native
    \/ \E s \in Sessions : \E h \in {"tied", "free"} : brand(s, h)
    \/ \E s \in Sessions : \E h \in {"tied", "free"} : performance_state(s, h)
    \/ \E s \in Sessions : \E h \in {"tied", "free"} : power_state(s, h)
    \/ \E s \in Sessions : \E h \in {"tied", "free"} : gpu_operation_mode(s, h)
    \/ \E s \in Sessions : \E h \in {"tied", "free"} : topology_common_ancestor(s, h)
    \/ bridge_chip_info_entry
    \/ unit_fan_info_entry

SpecEnums == InitEnums /\ [][NextEnums]_vars

\* ------------------------------------------------ array marshalling
\* The array queries are explored from the state after init() and
\* device_by_index(0), for every list of elements the native library may
\* have to report.
\* nvmlDeviceGetTopologyNearestGpus(device, level, count, deviceArray),
\* called with *count = 0. The library documents a *count of zero as the
\* query for the size: the number of matching GPUs is written to *count and
\* no handle is written. The general contract for an array call is the
\* other possible answer: InsufficientSize when there are more matching
\* GPUs than the capacity.
nvmlDeviceGetTopologyNearestGpus_statuses(rc, items) ==
    IF rc = 0 THEN {NVML_ERROR_UNINITIALIZED}
    ELSE IF Len(items) = 0 THEN {NVML_SUCCESS}
    ELSE {NVML_SUCCESS, NVML_ERROR_INSUFFICIENT_SIZE}

\* The body the Device and the Session method share: first_item is zeroed
\* and stays so, count is what the library wrote back, and the handles are
\* read from first_item on, each made a Device with Device::from.
NearestGpus(op, s) ==
    \E status \in nvmlDeviceGetTopologyNearestGpus_statuses(refCount, native.items) :
    \E r \in (IF nvml_try(status) # "Ok" THEN {Err(nvml_try(status))}
              ELSE from_raw_parts(0, Len(native.items))) :
       /\ last' = Op(op, s, status, "none", 1, FALSE, r)
       /\ UNCHANGED <<refCount, faults, shutdownCalls, sess, tiedDev, freeDev>>
       /\ UNCHANGED <<evVars, native>>

\* Device::topology_nearest_gpus(level).
topology_nearest_gpus(s, h) ==
    /\ HasHandle(s, h)
    /\ NearestGpus("topology_nearest_gpus", s)

\* NVML::topology_nearest_gpus(device, level).
NVML_topology_nearest_gpus(s) ==
    /\ sess[s] = "live"
    /\ tiedDev[s]
    /\ NearestGpus("NVML::topology_nearest_gpus", s)

\* The fixed-size arrays of the native structs (bridgeChipInfo: 128 entries,
\* fans: 24 entries), scaled: longer than any count the library reports.
FixedLen == MaxItems + 1

\* The nvmlBridgeChipHierarchy_t after the native call on the zeroed struct:
\* bridgeCount chips written, the entries behind them still zero
\* (type 0 is NVML_BRIDGE_CHIP_PLX).
nvmlBridgeChipHierarchy_t(items) ==
    [bridgeCount |-> Len(items),
     bridgeChipInfo |->
       [i \in 1..FixedLen |->
          IF i <= Len(items)
          THEN [type_ |-> IF items[i] = 7 THEN "NVML_BRIDGE_CHIP_PLX"
                          ELSE "NVML_BRIDGE_CHIP_BRO4",
                fwVersion |-> items[i]]
          ELSE [type_ |-> "NVML_BRIDGE_CHIP_PLX", fwVersion |-> 0]]]

\* From<nvmlBridgeChipHierarchy_t> for BridgeChipHierarchy:
\* struct_.bridgeChipInfo.iter().map(BridgeChipInfo::from).collect(), and
\* chip_count: struct_.bridgeCount.
BridgeChipHierarchy_from(struct_) ==
    [chips_hierarchy |->
       [i \in DOMAIN struct_.bridgeChipInfo |->
          (CHOOSE r \in BridgeChipInfo_from(struct_.bridgeChipInfo[i]) : TRUE).value],
     chip_count |-> struct_.bridgeCount]

\* Device::bridge_chip_info().
bridge_chip_info(s, h) ==
    /\ HasHandle(s, h)
    /\ \E status \in nvmlQuery_statuses(refCount, faults, {NVML_ERROR_NOT_SUPPORTED}) :
         /\ faults' = Charge(faults, status)
         /\ last' = Op("bridge_chip_info", s, status, "none", 1, FALSE,
                       IF nvml_try(status) # "Ok" THEN Err(nvml_try(status))
                       ELSE Ok(BridgeChipHierarchy_from(
                                 nvmlBridgeChipHierarchy_t(native.items))))
    /\ UNCHANGED <<refCount, shutdownCalls, sess, tiedDev, freeDev>>
    /\ UNCHANGED <<evVars, native>>

\* The nvmlUnitFanSpeeds_t of a unit: count fans written, the entries
\* behind them zero (state 0 is NVML_FAN_NORMAL).
nvmlUnitFanSpeeds_t(items) ==
    [count |-> Len(items),
     fans |->
       [i \in 1..FixedLen |->
          IF i <= Len(items)
          THEN [state |-> IF items[i] = 7 THEN "NVML_FAN_NORMAL"
                          ELSE "NVML_FAN_FAILED",
                speed |-> items[i]]
          ELSE [state |-> "NVML_FAN_NORMAL", speed |-> 0]]]

\* From<nvmlUnitFanSpeeds_t> for UnitFansInfo: count: struct_.count, and
\* fans: struct_.fans.iter().map(FanInfo::from).collect().
UnitFansInfo_from(struct_) ==
    [count |-> struct_.count,
     fans |->
       [i \in DOMAIN struct_.fans |->
          (CHOOSE r \in FanInfo_from(struct_.fans[i]) : TRUE).value]]

unit_fans_info ==
    /\ last' = Pure("UnitFansInfo_from",
                     Ok(UnitFansInfo_from(nvmlUnitFanSpeeds_t(native.items))))
    /\ UNCHANGED <<refCount, faults, shutdownCalls, sess, tiedDev, freeDev>>
    /\ UNCHANGED <<evVars, native>>

InitArrays ==
    /\ WithDevice
    /\ native \in {[NativeDefault EXCEPT !.items = l] : l \in ItemLists}

NextArrays ==
    \/ \E s \in Sessions : \E h \in {"tied", "free"} : \E size \in 0..MaxSize :
          running_compute_processes(s, h, size)
    \/ \E s \in Sessions : \E h \in {"tied", "free"} : \E size \in 0..MaxSize :
          running_graphics_processes(s, h, size)
    \/ \E s \in Sessions : \E h \in {"tied", "free"} : \E size \in 0..MaxSize :
          retired_pages(s, h, size)
    \/ \E s \in Sessions : \E h \in {"tied", "free"} : \E size \in 0..MaxSize :
          supported_graphics_clocks(s, h, size)
    \/ \E s \in Sessions : \E h \in {"tied", "free"} : \E size \in 0..MaxSize :
          supported_memory_clocks(s, h, size)
    \/ \E s \in Sessions : \E h \in {"tied", "free"} : \E size \in 0..MaxSize :
          accounting_pids(s, h, size)
    \/ \E s \in Sessions : \E h \in {"tied", "free"} : \E size \in 0..MaxWords :
          cpu_affinity(s, h, size)
    \/ \E s \in Sessions : \E h \in {"tied", "free"} : bridge_chip_info(s, h)
    \/ unit_fans_info
    \/ \E s \in Sessions : \E h \in {"tied", "free"} : topology_nearest_gpus(s, h)
    \/ \E s \in Sessions : NVML_topology_nearest_gpus(s)

SpecArrays == InitArrays /\ [][NextArrays]_vars

\* ------------------------------------------------ the public surface per host
\* The methods documented as "Only supports Linux", each with the cfg
\* attribute it carries: the key and the value the attribute compares.
NVML_linux_only ==
    {[method |-> "NVML::topology_common_ancestor",
      key |-> "target_os", value |-> "linux"],
     [method |-> "NVML::topology_nearest_gpus",
      key |-> "target_os", value |-> "linux"],
     [method |-> "NVML::topology_gpu_set",
      key |-> "target_os", value |-> "Linux"]}

Device_linux_only ==
    {[method |-> "Device::clear_cpu_affinity",
      key |-> "target_os", value |-> "linux"],
     [method |-> "Device::cpu_affinity",
      key |-> "target_os", value |-> "linux"],
     [method |-> "Device::minor_number",
      key |-> "target_os", value |-> "linux"],
     [method |-> "Device::is_in_persistent_mode",
      key |-> "target_os", value |-> "linux"],
     [method |-> "Device::topology_common_ancestor",
      key |-> "target_os", value |-> "linux"],
     [method |-> "Device::topology_nearest_gpus",
      key |-> "target_os", value |-> "linux"],
     [method |-> "Device::set_cpu_affinity",
      key |-> "target_os", value |-> "linux"],
     [method |-> "Device::set_persistent",
      key |-> "target_os", value |-> "linux"],
     [method |-> "Device::register_events",
      key |-> "platform", value |-> "linux"],
     [method |-> "Device::supported_event_types",
      key |-> "platform", value |-> "linux"]}

\* The hosts a build targets, and the configuration options the compiler
\* sets for each: target_os and target_family. No option is named platform.
Hosts == {"linux", "windows", "macos", "freebsd", "android"}

cfg_options(os) ==
    {<<"target_os", os>>,
     <<"target_family", IF os = "windows" THEN "windows" ELSE "unix">>}

\* #[cfg(key = "value")]: the item is compiled when the option is set.
cfg(m, os) == <<m.key, m.value>> \in cfg_options(os)

\* A caller names the method: it resolves when the method was compiled for
\* the host, and is a compile error otherwise.
resolve(m) == IF cfg(m, native.target_os) THEN Ok(m.method) ELSE Err("no method")

call_site(m) ==
    /\ m \in NVML_linux_only \cup Device_linux_only
    /\ last' = Pure(m.method, resolve(m))
    /\ UNCHANGED <<refCount, faults, shutdownCalls, sess, tiedDev, freeDev>>
    /\ UNCHANGED <<evVars, native>>

InitSurface ==
    /\ WithDevice
    /\ native \in {[NativeDefault EXCEPT !.target_os = os] : os \in Hosts}

NextSurface == \E m \in NVML_linux_only \cup Device_linux_only : call_site(m)

SpecSurface == InitSurface /\ [][NextSurface]_vars

\* ------------------------------------------------ accounting statistics
\* NVML_VALUE_NOT_AVAILABLE: the native header's -1, a signed int.
NVML_VALUE_NOT_AVAILABLE == -1

\* `x as uN`: the value modulo 2^N (sign extension when widening a negative
\* value, truncation when narrowing).
as_unsigned(x, bits) == x % (2 ^ bits)

None == [some |-> FALSE, value |-> 0]
Some(v) == [some |-> TRUE, value |-> v]

\* From<nvmlAccountingStats_t> for AccountingStats.
AccountingStats_from_one_sentinel(struct_) ==
    LET not_avail_u32 == as_unsigned(NVML_VALUE_NOT_AVAILABLE, U32Bits)
    IN  [gpu_utilization |->
           IF as_unsigned(struct_.gpuUtilization, U32Bits) = not_avail_u32
           THEN None ELSE Some(as_unsigned(struct_.gpuUtilization, U32Bits)),
         is_running |-> struct_.isRunning # 0,
         max_memory_usage |->
           IF as_unsigned(struct_.maxMemoryUsage, U64Bits) = not_avail_u32
           THEN None ELSE Some(as_unsigned(struct_.maxMemoryUsage, U64Bits)),
         memory_utilization |->
           IF as_unsigned(struct_.memoryUtilization, U32Bits) = not_avail_u32
           THEN None ELSE Some(as_unsigned(struct_.memoryUtilization, U32Bits)),
         start_time |-> as_unsigned(struct_.startTime, U64Bits),
         time |-> as_unsigned(struct_.time, U64Bits)]

AccountingStats_from(struct_) ==
    LET not_avail_u64 == as_unsigned(NVML_VALUE_NOT_AVAILABLE, U64Bits)
        not_avail_u32 == as_unsigned(NVML_VALUE_NOT_AVAILABLE, U32Bits)
    IN  [gpu_utilization |->
           IF as_unsigned(struct_.gpuUtilization, U32Bits) = not_avail_u32
           THEN None ELSE Some(as_unsigned(struct_.gpuUtilization, U32Bits)),
         is_running |-> struct_.isRunning # 0,
         max_memory_usage |->
           IF as_unsigned(struct_.maxMemoryUsage, U64Bits) = not_avail_u64
           THEN None ELSE Some(as_unsigned(struct_.maxMemoryUsage, U64Bits)),
         memory_utilization |->
           IF as_unsigned(struct_.memoryUtilization, U32Bits) = not_avail_u32
           THEN None ELSE Some(as_unsigned(struct_.memoryUtilization, U32Bits)),
         start_time |-> as_unsigned(struct_.startTime, U64Bits),
         time |-> as_unsigned(struct_.time, U64Bits)]

\* Device::accounting_stats_for(process_id).
accounting_stats_for(s, h) ==
    /\ HasHandle(s, h)
    /\ \E status \in nvmlQuery_statuses(refCount, faults, {NVML_ERROR_NOT_SUPPORTED}) :
         /\ faults' = Charge(faults, status)
         /\ last' = Op("accounting_stats_for", s, status, "none", 1, FALSE,
                       IF nvml_try(status) # "Ok" THEN Err(nvml_try(status))
                       ELSE Ok(AccountingStats_from(native.stats)))
    /\ UNCHANGED <<refCount, shutdownCalls, sess, tiedDev, freeDev>>
    /\ UNCHANGED <<evVars, native>>

\* The conversion is explored from the state after init() and
\* device_by_index(0), for every value of the fields it looks at.
InitStats ==
    /\ WithDevice
    /\ native \in {[NativeDefault EXCEPT !.stats =
                       [gpuUtilization |-> g, isRunning |-> r,
                        maxMemoryUsage |-> x, memoryUtilization |-> m,
                        startTime |-> 0, time |-> 0]] :
                     g \in U32, r \in U32, x \in U64, m \in U32}

NextStats == \E s \in Sessions : \E h \in {"tied", "free"} : accounting_stats_for(s, h)

SpecStats == InitStats /\ [][NextStats]_vars

\* ------------------------------------------------ string marshalling
\* CStr::from_ptr(buffer.as_ptr()): the bytes from the start of the buffer
\* up to the first 0 byte. The read does not stop at the buffer's capacity:
\* it runs on through the memory that follows, and is undefined when it
\* leaves what is readable.
HasNul(mem) == \E i \in DOMAIN mem : mem[i] = 0
FirstNul(mem) ==
    CHOOSE i \in DOMAIN mem : mem[i] = 0 /\ \A j \in 1..(i - 1) : mem[j] # 0

CStr_whole_buffer(buf, tail) == Ok(SelectSeq(buf, LAMBDA b : b # 0))

CStr_from_ptr(buf, tail) ==
    LET mem == buf \o tail
    IN  IF HasNul(mem) THEN Ok(SubSeq(mem, 1, FirstNul(mem) - 1))
        ELSE Undefined

\* The bytes CStr::from_ptr examines looking for the terminator, counted
\* from the start of the buffer: up to and including the first 0 byte, or
\* one more than all that is readable when there is none.
strlen_examined(buf, tail) ==
    IF HasNul(buf \o tail) THEN FirstNul(buf \o tail) ELSE Len(buf \o tail) + 1

\* Whether bytes are well-formed UTF-8, as str::from_utf8 decides it.
Continuation(b) == b \in 128..191

RECURSIVE Utf8Valid(_)
Utf8Valid(bytes) ==
    IF bytes = << >> THEN TRUE
    ELSE LET b == Head(bytes)
             n == Len(bytes)
         IN  IF b < 128 THEN Utf8Valid(Tail(bytes))
             ELSE IF b \in 194..223
                  THEN /\ n >= 2
                       /\ Continuation(bytes[2])
                       /\ Utf8Valid(SubSeq(bytes, 3, n))
             ELSE IF b \in 224..239
                  THEN /\ n >= 3
                       /\ bytes[2] \in (IF b = 224 THEN 160..191
                                        ELSE IF b = 237 THEN 128..159
                                        ELSE 128..191)
                       /\ Continuation(bytes[3])
                       /\ Utf8Valid(SubSeq(bytes, 4, n))
             ELSE IF b \in 240..244
                  THEN /\ n >= 4
                       /\ bytes[2] \in (IF b = 240 THEN 144..191
                                        ELSE IF b = 244 THEN 128..143
                                        ELSE 128..191)
                       /\ Continuation(bytes[3])
                       /\ Continuation(bytes[4])
                       /\ Utf8Valid(SubSeq(bytes, 5, n))
             ELSE FALSE

\* CStr::to_str(): the bytes as a str, or the Utf8Error.
to_string_lossy(bytes) == Ok(bytes)

to_str(bytes) == IF Utf8Valid(bytes) THEN Ok(bytes) ELSE Err("Utf8Error")

\* The decoding every string query ends with:
\* CStr::from_ptr(..).to_str()?.into().
Decode(buf, tail) ==
    IF CStr_from_ptr(buf, tail).kind # "Ok" THEN Undefined
    ELSE to_str(CStr_from_ptr(buf, tail).value)

\* Device::name().
name_result_once(status, buf, tail) ==
    IF nvml_try(status) # "Ok" THEN Err(nvml_try(status))
    ELSE IF last.op = "name" THEN Ok(<< >>)
    ELSE Decode(buf, tail)

name_result(status, buf, tail) ==
    IF nvml_try(status) # "Ok" THEN Err(nvml_try(status))
    ELSE Decode(buf, tail)

name(s, h) ==
    /\ HasHandle(s, h)
    /\ \E status \in nvmlQuery_statuses(refCount, faults, {NVML_ERROR_UNKNOWN}) :
         /\ faults' = Charge(faults, status)
         /\ last' = Op("name", s, status, "none", 1, FALSE,
                       name_result(status, native.buf, native.tail))
    /\ UNCHANGED <<refCount, shutdownCalls, sess, tiedDev, freeDev>>
    /\ UNCHANGED <<evVars, native>>

\* NVML::sys_driver_version().
sys_driver_version_result(status, buf, tail) ==
    IF nvml_try(status) # "Ok" THEN Err(nvml_try(status))
    ELSE Decode(buf, tail)

sys_driver_version(s) ==
    /\ sess[s] = "live"
    /\ \E status \in nvmlQuery_statuses(refCount, faults, {NVML_ERROR_UNKNOWN}) :
         /\ faults' = Charge(faults, status)
         /\ last' = Op("sys_driver_version", s, status, "none", 1, FALSE,
                       sys_driver_version_result(status, native.buf, native.tail))
    /\ UNCHANGED <<refCount, shutdownCalls, sess, tiedDev, freeDev>>
    /\ UNCHANGED <<evVars, native>>

\* PciInfo::try_from(nvmlPciInfo_t): the bus id decoded from the busId
\* array of the struct, the numeric fields cast.
PciInfo_try_from(struct_, tail) ==
    IF Decode(struct_.busId, tail).kind # "Ok" THEN Decode(struct_.busId, tail)
    ELSE Ok([bus |-> struct_.bus,
             bus_id |-> Decode(struct_.busId, tail).value,
             device |-> struct_.device,
             domain |-> struct_.domain,
             pci_device_id |-> struct_.pciDeviceId,
             pci_sub_system_id |-> struct_.pciSubSystemId])

\* The nvmlPciInfo_t of the device, bus id buffer apart.
nvmlPciInfo_t(busId) ==
    [busId |-> busId, bus |-> 1, device |-> 0, domain |-> 0,
     pciDeviceId |-> 0, pciSubSystemId |-> 0]

\* Device::pci_info().
pci_info_result(status, busId, tail) ==
    IF nvml_try(status) # "Ok" THEN Err(nvml_try(status))
    ELSE PciInfo_try_from(nvmlPciInfo_t(busId), tail)

pci_info(s, h) ==
    /\ HasHandle(s, h)
    /\ \E status \in nvmlQuery_statuses(refCount, faults, {NVML_ERROR_UNKNOWN}) :
         /\ faults' = Charge(faults, status)
         /\ last' = Op("pci_info", s, status, "none", 1, FALSE,
                       pci_info_result(status, native.buf, native.tail))
    /\ UNCHANGED <<refCount, shutdownCalls, sess, tiedDev, freeDev>>
    /\ UNCHANGED <<evVars, native>>

\* The string queries are explored from the state after init() and
\* device_by_index(0), for every content of the buffer and of the memory
\* behind it.
InitStrings ==
    /\ WithDevice
    /\ native \in {[NativeDefault EXCEPT !.buf = b, !.tail = t] :
                     b \in Buffers, t \in Tails}

NextStrings ==
    \/ \E s \in Sessions : \E h \in {"tied", "free"} : name(s, h)
    \/ \E s \in Sessions : sys_driver_version(s)
    \/ \E s \in Sessions : \E h \in {"tied", "free"} : pci_info(s, h)

SpecStrings == InitStrings /\ [][NextStrings]_vars

\* ------------------------------------------------------------- claims
NoFaults == faults = 0

\* C1: with the native library failing only as its reference count
\* dictates, the library is initialized if and only if some Session is live,
\* and no call through a live Session or a Device of a live Session returns
\* Uninitialized.
C1_InitializedIffLive ==
    NoFaults =>
       /\ (refCount > 0) <=> (LiveSessions # {})
       /\ (/\ last.op \in {"device_count", "device_by_index", "fan_speed"}
           /\ sess[last.session] = "live")
             => last.ret.kind # "Uninitialized"

\* C2: the native shutdown function has been called once per ended Session,
\* and an explicit shutdown() makes one native shutdown call.
C2_OneShutdownPerSession ==
    /\ shutdownCalls = Cardinality(EndedSessions)
    /\ last.op = "shutdown" => last.calls = 1

\* C3: when the native call of shutdown()'s body fails, shutdown() returns
\* that error and nothing panics.
C3_ShutdownSurfacesError ==
    (last.op = "shutdown" /\ last.status # NVML_SUCCESS)
       => /\ last.ret = Err(nvml_try(last.status))
          /\ ~last.panicked

C5_DropIgnoresErrors ==
    (last.op = "scope_exit" /\ last.dropStatus # NVML_SUCCESS)
       => ~last.panicked

\* C6: with the native library failing only as its reference count dictates,
\* every init(), device_count() and shutdown() of Sessions that each thread
\* creates for itself returns success, and none panics.
C6_ThreadsAllSucceed ==
    (NoFaults /\ last.op \in {"init", "device_count", "shutdown"})
       => /\ last.ret.kind = "Ok"
          /\ ~last.panicked

\* C7: every Device method call happens while the Session that produced the
\* Device is live.
C7_NoCallAfterSessionEnd ==
    last.op = "fan_speed" => sess[last.session] = "live"

\* C8: after two (or more) Sessions were initialized and all of them have
\* been shut down, the native library failing only as its reference count
\* dictates, a Device method call returns the Uninitialized error and no value.
C8_UninitializedAfterAllShutdown ==
    (/\ last.op = "fan_speed"
     /\ NoFaults
     /\ LiveSessions = {}
     /\ Cardinality(EndedSessions) >= 2)
       => last.ret = Err("Uninitialized")

C8_Witness ==
    /\ last.op = "fan_speed"
    /\ NoFaults
    /\ LiveSessions = {}
    /\ Cardinality(EndedSessions) >= 2
    /\ last.ret.kind = "Uninitialized"
    /\ last.ret.value = NoValue

\* C9: when the native registration call returns Unknown, register_events
\* issues the native destroy call on the set exactly once before returning
\* and, if that destroy succeeds, returns the original Unknown error.
C9_UnknownDestroysOnce ==
    (lastEv.op = "register_events" /\ lastEv.status = NVML_ERROR_UNKNOWN)
       => /\ lastEv.destroys = 1
          /\ evFreeCalls[lastEv.set] = 1
          /\ lastEv.freeStatus = NVML_SUCCESS => lastEv.ret = Err("Unknown")

C9_Witness ==
    /\ lastEv.op = "register_events"
    /\ lastEv.status = NVML_ERROR_UNKNOWN
    /\ lastEv.freeStatus = NVML_SUCCESS
    /\ evFreeCalls[lastEv.set] = 1
    /\ evState[lastEv.set] = "freed"
    /\ lastEv.ret.kind = "Unknown"

\* C10: when the native registration call returns success, register_events
\* returns the set it was given; when it returns a failure other than
\* Unknown, the error is returned; in both cases no destroy call is issued
\* on the set and the set stays valid for the caller to use further.
C10_SetStaysUsable ==
    (lastEv.op = "register_events" /\ lastEv.status # NVML_ERROR_UNKNOWN)
       => /\ lastEv.status = NVML_SUCCESS => lastEv.ret = Ok(lastEv.set)
          /\ lastEv.status # NVML_SUCCESS
                => lastEv.ret = Err(nvml_try(lastEv.status))
          /\ evFreeCalls[lastEv.set] = 0
          /\ evState[lastEv.set] = "valid"
          /\ evHeld[lastEv.set]

\* C11: when the native registration call returns Unknown and the
\* compensating destroy call fails too, the error register_events returns
\* carries both failures: the original Unknown of the registration (as the
\* error or as its cause) and the error of the destroy call.
C11_BothFailuresCarried ==
    (/\ lastEv.op = "register_events"
     /\ lastEv.status = NVML_ERROR_UNKNOWN
     /\ lastEv.freeStatus # NVML_SUCCESS)
       => \/ /\ lastEv.ret.kind = nvml_try(lastEv.status)
             /\ lastEv.ret.cause = nvml_try(lastEv.freeStatus)
          \/ /\ lastEv.ret.kind = nvml_try(lastEv.freeStatus)
             /\ lastEv.ret.cause = nvml_try(lastEv.status)

\* C12: every query that converts an enum value written by the native
\* library (brand, performance_state, power_state, gpu_operation_mode,
\* topology_common_ancestor, the chip type of a bridge chip entry, the state
\* of a unit fan entry) returns the unrecognized-variant error when the
\* value is none of the native constants of the wrapper's declared variants;
\* it is never mapped to a variant.
EnumQueryOps ==
    {"brand", "performance_state", "power_state", "gpu_operation_mode",
     "topology_common_ancestor", "BridgeChipInfo_from", "FanInfo_from"}

C12_UnrecognizedIsError ==
    (/\ last.op \in EnumQueryOps
     /\ last.status \in {NVML_SUCCESS, "none"}
     /\ native.enumValue.c \notin c_variants(Enum(native.enumValue.enum)))
       => last.ret = Err("UnexpectedVariant")

\* C13: for every declared variant of every wrapper enum, into_c() gives
\* exactly one native constant, a constant of the wrapped enum; two different
\* variants of one enum never give the same constant; and converting the
\* constant back gives the variant it came from. Every wrapper enum is the
\* enum at hand in some behaviour.
C13_RoundTrip ==
    [][LET E == Enum(native.enumValue.enum)
       IN  /\ \A v \in Variants(E) :
                /\ Cardinality({i \in DOMAIN E.variants : E.variants[i][1] = v}) = 1
                /\ \A w \in Variants(E) : w # v => into_c(E, w) # into_c(E, v)
           /\ last'.op = "into_c" => last'.ret.value.c \in c_variants(E)
           /\ (last.op = "into_c" /\ last'.op = "from_native")
                => last'.ret = Ok(last.ret.value.variant)]_vars

C13_Witness ==
    /\ last.op = "from_native"
    /\ last.ret = Ok("Fifteen")

\* C14: for every wrapper method, when the native call returns a
\* non-success status the method returns the error of that status and no
\* value, nothing being read from the output storage; a value is returned
\* only when the native status is success.
C14_ValueOnlyOnSuccess ==
    (last.calls >= 1 /\ last.status # "none")
       => /\ last.status # NVML_SUCCESS
             => /\ last.ret = Err(nvml_try(last.status))
                /\ last.ret.value = NoValue
          /\ last.ret.kind = "Ok" => last.status = NVML_SUCCESS

\* C15: every count-reported array query, on success, returns a collection
\* of exactly as many elements as the count the native call wrote back,
\* whatever capacity was asked for.
ArrayOps ==
    {"running_compute_processes", "running_graphics_processes",
     "retired_pages", "supported_graphics_clocks", "supported_memory_clocks",
     "accounting_pids"}

C15_CountElements ==
    (last.op \in ArrayOps /\ last.status = NVML_SUCCESS)
       => /\ last.ret.kind = "Ok"
          /\ Len(last.ret.value) = Len(native.items)

\* C16: decoding a string buffer that holds a terminator yields exactly the
\* bytes before the first terminator: the bytes after it, and the memory
\* behind the buffer, never affect the result.
StringOps == {"name", "sys_driver_version", "pci_info"}
Text(op, ret) == IF op = "pci_info" THEN ret.value.bus_id ELSE ret.value
BeforeTerminator(buf) == SubSeq(buf, 1, FirstNul(buf) - 1)

C16_UpToTerminator ==
    (/\ last.op \in StringOps
     /\ last.status = NVML_SUCCESS
     /\ HasNul(native.buf)
     /\ Utf8Valid(BeforeTerminator(native.buf)))
       => /\ last.ret.kind = "Ok"
          /\ Text(last.op, last.ret) = BeforeTerminator(native.buf)
          /\ \A b \in Buffers : \A t \in Tails :
               (HasNul(b) /\ BeforeTerminator(b) = BeforeTerminator(native.buf))
                  => /\ name_result(NVML_SUCCESS, b, t)
                          = Ok(BeforeTerminator(native.buf))
                     /\ sys_driver_version_result(NVML_SUCCESS, b, t)
                          = Ok(BeforeTerminator(native.buf))
                     /\ pci_info_result(NVML_SUCCESS, b, t).value.bus_id
                          = BeforeTerminator(native.buf)

C16_Witness ==
    /\ last.op = "name"
    /\ native.buf[1] = 65
    /\ native.buf[2] = 0
    /\ native.buf[StrCap] = 255
    /\ last.ret = Ok(<<65>>)

\* C17: when the bytes of a string buffer up to its terminator are not
\* valid UTF-8, the string query returns the Utf8 error: it does not panic
\* and returns no string.
C17_InvalidUtf8IsError ==
    (/\ last.op \in StringOps
     /\ last.status = NVML_SUCCESS
     /\ HasNul(native.buf)
     /\ ~Utf8Valid(BeforeTerminator(native.buf)))
       => /\ last.ret = Err("Utf8Error")
          /\ last.ret.value = NoValue
          /\ ~last.panicked

C17_Witness ==
    /\ last.op = "sys_driver_version"
    /\ native.buf[1] = 195
    /\ native.buf[2] = 0
    /\ last.ret.kind = "Utf8Error"

\* C18: when the string passed to device_by_pci_bus_id or device_by_uuid
\* holds a null byte, the method returns the NulError and makes no call
\* into the native library.
C18_NulByteNoNativeCall ==
    [][\A s \in Sessions : \A string \in CallerStrings :
         (/\ HasNul(string)
          /\ device_by_pci_bus_id(s, string) \/ device_by_uuid(s, string))
            => /\ last'.ret = Err("NulError")
               /\ last'.calls = 0
               /\ last'.status = "none"
               /\ tiedDev' = tiedDev]_vars

C18_Witness ==
    /\ last.op = "device_by_uuid"
    /\ last.ret.kind = "NulError"
    /\ last.calls = 0

\* C19: when the native init call returns a non-success status, init()
\* returns the error of that status (DriverNotLoaded, NoPermission or
\* Unknown), no Session comes to exist, and no native shutdown call is made
\* for that attempt, then or later.
C19_FailedInitLeavesNothing ==
    [][\A s \in Sessions :
         /\ (init(s) /\ last'.status # NVML_SUCCESS)
              => /\ last'.ret = Err(nvml_try(last'.status))
                 /\ last'.ret.kind \in {"DriverNotLoaded", "NoPermission", "Unknown"}
                 /\ last'.ret.value = NoValue
                 /\ sess'[s] = "failed"
                 /\ shutdownCalls' = shutdownCalls
                 /\ refCount' = refCount
         /\ sess[s] = "failed"
              => /\ sess'[s] = "failed"
                 /\ shutdownCalls' # shutdownCalls => last'.session # s]_vars

C19_Witness ==
    /\ \E s \in Sessions : sess[s] = "failed"
    /\ last.op = "scope_exit"
    /\ shutdownCalls = Cardinality(EndedSessions)

\* C20: each invocation of a query or command method of a Session or a
\* Device makes exactly one call into the native library, also when that
\* call fails (a method that returns the NulError before its call apart).
MethodOps ==
    {"shutdown", "device_count", "device_by_index", "device_by_pci_bus_id",
     "device_by_uuid", "fan_speed", "running_compute_processes",
     "retired_pages"}

C20_OneNativeCall ==
    (last.op \in MethodOps /\ last.ret.kind # "NulError") => last.calls = 1

C22_AffinityWords ==
    [][\A s \in Sessions : \A h \in {"tied", "free"} : \A size \in 0..MaxWords :
         (cpu_affinity(s, h, size) /\ last'.status = NVML_SUCCESS)
            => last'.ret = Ok(cpuSet(size))]_vars

\* C23: each Linux-only operation is part of the public surface when the
\* host operating system is Linux and is absent on every other host.
C23_LinuxOnlySurface ==
    \A m \in NVML_linux_only \cup Device_linux_only :
       last.op = m.method
          => (last.ret.kind = "Ok" <=> native.target_os = "linux")

\* C24: for every count-reported array query, the output storage handed to
\* the native call has room for at least as many elements as the capacity
\* passed to that call.
C24_StorageHoldsCapacity ==
    [][\A s \in Sessions : \A h \in {"tied", "free"} : \A size \in 0..MaxSize :
         (\/ running_compute_processes(s, h, size)
          \/ running_graphics_processes(s, h, size)
          \/ retired_pages(s, h, size)
          \/ supported_graphics_clocks(s, h, size)
          \/ supported_memory_clocks(s, h, size)
          \/ accounting_pids(s, h, size))
            => count_in(size) <= first_item_room]_vars

\* C25: BridgeChipHierarchy.chips_hierarchy contains exactly chip_count
\* entries and UnitFansInfo.fans contains exactly count entries: entries of
\* the native fixed-size array beyond the reported count are not read into
\* the result.
C25_EntriesUpToCount ==
    /\ (last.op = "bridge_chip_info" /\ last.ret.kind = "Ok")
          => Len(last.ret.value.chips_hierarchy) = last.ret.value.chip_count
    /\ last.op = "UnitFansInfo_from"
          => Len(last.ret.value.fans) = last.ret.value.count

\* C26: accounting_pids(size) on success returns, in order, exactly the
\* process IDs the native call wrote into the storage whose address it was
\* handed: the elements are read from that storage and from nowhere else.
C26_PidsFromStorage ==
    (last.op = "accounting_pids" /\ last.status = NVML_SUCCESS)
       => last.ret = Ok(native.items)

\* C27: topology_nearest_gpus(level), on Device and on the Session, on
\* success returns one Device handle for every GPU the native library has
\* as nearest at that level: exactly those k handles.
C27_NearestGpusReturned ==
    (/\ last.op \in {"topology_nearest_gpus", "NVML::topology_nearest_gpus"}
     /\ last.status = NVML_SUCCESS)
       => last.ret = Ok(native.items)

\* C28: between a registration call that failed with Unknown and the
\* compensating destroy call, no other thread performs any operation on
\* that EventSet: register_events holds the set exclusively until the
\* destroy call has returned.
C28_ExclusiveUntilDestroyed ==
    [][\A k \in Sets :
         evIn[k] = "failed"
            => /\ ~wait(k)
               /\ ~destroy(k)
               /\ ~EventSet_from(k)
               /\ \A s \in Sessions : ~register_events_call(s, k)]_vars

\* C29: decoding a fixed-capacity string buffer never reads bytes beyond
\* the buffer's capacity, also when the buffer holds no terminator byte
\* within its capacity.
C29_ReadWithinCapacity ==
    (last.op \in StringOps /\ last.status = NVML_SUCCESS)
       => strlen_examined(native.buf, native.tail) <= Len(native.buf)

\* C30: in the AccountingStats conversion, gpu_utilization,
\* memory_utilization and max_memory_usage are None exactly when the native
\* field equals the not-available sentinel converted to the field's width
\* (that of u32 for the utilizations, that of u64 for the memory usage) and
\* otherwise Some of the native value unchanged; is_running is false
\* exactly when the native isRunning field is 0.
Sentinel(bits) == as_unsigned(NVML_VALUE_NOT_AVAILABLE, bits)
OptionOf(field, bits) == IF field = Sentinel(bits) THEN None ELSE Some(field)

C30_SentinelIsNone ==
    (last.op = "accounting_stats_for" /\ last.status = NVML_SUCCESS)
       => /\ last.ret.kind = "Ok"
          /\ last.ret.value.gpu_utilization
                = OptionOf(native.stats.gpuUtilization, U32Bits)
          /\ last.ret.value.memory_utilization
                = OptionOf(native.stats.memoryUtilization, U32Bits)
          /\ last.ret.value.max_memory_usage
                = OptionOf(native.stats.maxMemoryUsage, U64Bits)
          /\ last.ret.value.is_running = (native.stats.isRunning # 0)

C30_Witness ==
    /\ last.op = "accounting_stats_for"
    /\ native.stats.maxMemoryUsage = 2 ^ U64Bits - 1
    /\ native.stats.gpuUtilization = 2 ^ U32Bits - 1
    /\ native.stats.memoryUtilization = 2 ^ U32Bits - 2
    /\ native.stats.isRunning = 2
    /\ last.ret.kind = "Ok"
    /\ last.ret.value.max_memory_usage = None
    /\ last.ret.value.gpu_utilization = None
    /\ last.ret.value.memory_utilization = Some(2 ^ U32Bits - 2)
    /\ last.ret.value.is_running

====
